---- MODULE Spec2Model ----
(***************************************************************************)
(* Model of samples/api/get_depth_with_region.cc: the DepthRegion class    *)
(* (mouse state machine OnMouse, the text grid ShowElems, the rectangle    *)
(* DrawRect) and the frame loop of main that drives it.                    *)
(***************************************************************************)
EXTENDS Integers, FiniteSets, Sequences, TLC

\* ---------------------------------------------------------------------------
\* Bounds of the model
\* ---------------------------------------------------------------------------
MaxRadius == 3          \* DepthRegion(n) is constructed with n in 0..MaxRadius
MaxCoord == 3           \* mouse coordinates range over -1..MaxCoord
Cols == 3               \* depth.cols of a non-empty frame
Rows == 2               \* depth.rows of a non-empty frame

Coords == (0 - 1)..MaxCoord

\* ---------------------------------------------------------------------------
\* Program constants
\* ---------------------------------------------------------------------------
CV_EVENT_MOUSEMOVE == 0
CV_EVENT_LBUTTONDOWN == 1
CV_EVENT_RBUTTONDOWN == 2
Events == {CV_EVENT_MOUSEMOVE, CV_EVENT_LBUTTONDOWN, CV_EVENT_RBUTTONDOWN}

InvalidDepth == 10000   \* elem >= 10000 is printed as "invalid"
MainElemSpace == 80     \* elem_space passed by main
KeyEsc == 27
KeyLowerQ == 113
KeyUpperQ == 81
NoKey == -1
Keys == {NoKey, KeyEsc, KeyLowerQ, KeyUpperQ}

\* ---------------------------------------------------------------------------
\* 32-bit arithmetic.  A std::uint32_t is kept as two 16-bit halves, so that
\* arithmetic modulo 2^32 and the conversion to int are computed exactly.
\* ---------------------------------------------------------------------------
Half == 65536

\* conversion of an int (or of a small unsigned) to std::uint32_t
U32(v) == [hi |-> (v \div Half) % Half, lo |-> v % Half]

\* a + b in std::uint32_t
AddU32(a, b) ==
  LET lo == a.lo + b.lo
  IN  [hi |-> (a.hi + b.hi + (lo \div Half)) % Half, lo |-> lo % Half]

\* a - b in std::uint32_t
SubU32(a, b) ==
  LET lo == a.lo - b.lo
  IN  [hi |-> (a.hi - b.hi + (lo \div Half)) % Half, lo |-> lo % Half]

\* static_cast<int>(u), and the implicit conversion of a std::uint32_t to int
ToInt(u) ==
  IF u.hi >= Half \div 2 THEN (u.hi - Half) * Half + u.lo
                         ELSE u.hi * Half + u.lo

\* a <= b in std::uint32_t
LeU32(a, b) == a.hi < b.hi \/ (a.hi = b.hi /\ a.lo <= b.lo)

\* Exact integers beyond 32 bits, as a signed high part and a 16-bit low
\* part: the arithmetic the claims are stated in.
Wide(v) == [hi |-> v \div Half, lo |-> v % Half]

WAdd(a, b) ==
  LET lo == a.lo + b.lo
  IN  [hi |-> a.hi + b.hi + (lo \div Half), lo |-> lo % Half]

WSub(a, b) ==
  LET lo == a.lo - b.lo
  IN  [hi |-> a.hi - b.hi + (lo \div Half), lo |-> lo % Half]

WLe(a, b) == a.hi < b.hi \/ (a.hi = b.hi /\ a.lo <= b.lo)

\* p - r <= x <= p + r over the integers
WithinExact(x, p, r) ==
  /\ WLe(WSub(Wide(p), Wide(r)), Wide(x))
  /\ WLe(Wide(x), WAdd(Wide(p), Wide(r)))

\* ---------------------------------------------------------------------------
\* State
\* ---------------------------------------------------------------------------
VARIABLES
  n_,           \* DepthRegion::n_
  show_,        \* DepthRegion::show_
  selected_,    \* DepthRegion::selected_
  point_,       \* DepthRegion::point_
  pc,           \* position of main in its frame loop
  depth_frame,  \* the depth frame of the current loop iteration
  src_frame,    \* the frame as GetStreamData returned it
  im,           \* what ShowElems handed to imshow("region", im)
  reads,        \* the coordinates ShowElems read with depth.at<T>(y, x)
  rect,         \* the arguments DrawRect passed to cv::rectangle
  callback,     \* cv::setMouseCallback("depth", ...) has been called
  touched,      \* a MOUSEMOVE or LBUTTONDOWN event has been delivered
  armed,        \* the click of a selected selector outside its region, if
                \* only MOUSEMOVE events have been delivered since
  last          \* the last call, its arguments and the members before it

vars == <<n_, show_, selected_, point_, pc, depth_frame, src_frame, im, reads,
          rect, callback, touched, armed, last>>

selector == <<n_, show_, selected_, point_>>

Pt(x, y) == [x |-> x, y |-> y]

\* ---------------------------------------------------------------------------
\* Depth frames
\* ---------------------------------------------------------------------------
Pixels == (0..(Cols - 1)) \X (0..(Rows - 1))

EmptyFrame == [cols |-> 0, rows |-> 0, data |-> <<>>]

\* a frame around the 10000 limit, and a frame of near distances
FrameFar == [cols |-> Cols, rows |-> Rows,
             data |-> [p \in Pixels |-> 9996 + p[1] + Cols * p[2]]]
FrameNear == [cols |-> Cols, rows |-> Rows,
              data |-> [p \in Pixels |-> 7 + 100 * p[1] + 1000 * p[2]]]
Frames == {EmptyFrame, FrameFar, FrameNear}

NoImage == [rows |-> 0, cols |-> 0, cells |-> {}, info |-> ""]

\* ---------------------------------------------------------------------------
\* Decimal text of an integer (std::to_string, operator<<)
\* ---------------------------------------------------------------------------
Digit(d) == <<"0", "1", "2", "3", "4", "5", "6", "7", "8", "9">>[d + 1]

RECURSIVE NatToString(_)
NatToString(v) ==
  IF v < 10 THEN Digit(v) ELSE NatToString(v \div 10) \o Digit(v % 10)

IntToString(v) == IF v < 0 THEN "-" \o NatToString(0 - v) ELSE NatToString(v)

\* ---------------------------------------------------------------------------
\* DepthRegion::OnMouse
\* ---------------------------------------------------------------------------
\* the event filter of OnMouse
Qualifies(event) ==
  ~(event # CV_EVENT_MOUSEMOVE /\ event # CV_EVENT_LBUTTONDOWN)

InRegionStrict(x, y) ==
  /\ x > ToInt(SubU32(U32(point_.x), U32(n_)))
  /\ x < ToInt(AddU32(U32(point_.x), U32(n_)))
  /\ y > ToInt(SubU32(U32(point_.y), U32(n_)))
  /\ y < ToInt(AddU32(U32(point_.y), U32(n_)))

InRegionUnsigned(x, y) ==
  /\ LeU32(SubU32(U32(point_.x), U32(n_)), U32(x))
  /\ LeU32(U32(x), AddU32(U32(point_.x), U32(n_)))
  /\ LeU32(SubU32(U32(point_.y), U32(n_)), U32(y))
  /\ LeU32(U32(y), AddU32(U32(point_.y), U32(n_)))

\* the test of a click against the selected region
InRegion(x, y) ==
  /\ x >= ToInt(SubU32(U32(point_.x), U32(n_)))
  /\ x <= ToInt(AddU32(U32(point_.x), U32(n_)))
  /\ y >= ToInt(SubU32(U32(point_.y), U32(n_)))
  /\ y <= ToInt(AddU32(U32(point_.y), U32(n_)))

OnMouseShowDownOnly(event) ==
  IF event = CV_EVENT_LBUTTONDOWN THEN TRUE ELSE show_

OnMouseShowUnfiltered(event) == TRUE

OnMouseShowMoveOnly(event) ==
  IF event = CV_EVENT_MOUSEMOVE THEN TRUE ELSE show_

\* show_ after OnMouse
OnMouseShow(event) ==
  IF ~Qualifies(event) THEN show_ ELSE TRUE

OnMouseSelectedToggle(event, x, y) ==
  IF ~Qualifies(event) THEN selected_
  ELSE IF event = CV_EVENT_MOUSEMOVE THEN selected_
  ELSE ~selected_

\* selected_ after OnMouse
OnMouseSelected(event, x, y) ==
  IF ~Qualifies(event) THEN selected_
  ELSE IF event = CV_EVENT_MOUSEMOVE THEN selected_
  ELSE IF selected_ THEN (IF InRegion(x, y) THEN FALSE ELSE selected_)
  ELSE TRUE

OnMousePointKeepInside(event, x, y) ==
  IF ~Qualifies(event) THEN point_
  ELSE IF event = CV_EVENT_MOUSEMOVE
       THEN (IF ~selected_ THEN Pt(x, y) ELSE point_)
  ELSE IF selected_ /\ InRegion(x, y) THEN point_
  ELSE Pt(x, y)

OnMousePointSwapped(event, x, y) ==
  IF ~Qualifies(event) THEN point_
  ELSE IF event = CV_EVENT_MOUSEMOVE
       THEN (IF ~selected_ THEN Pt(y, x) ELSE point_)
  ELSE Pt(x, y)

OnMousePointDrift(event, x, y) ==
  IF ~Qualifies(event) THEN point_ ELSE Pt(x, y)

OnMousePointPinnedStays(event, x, y) ==
  IF ~Qualifies(event) THEN point_
  ELSE IF selected_ THEN point_
  ELSE Pt(x, y)

\* point_ after OnMouse
OnMousePoint(event, x, y) ==
  IF ~Qualifies(event) THEN point_
  ELSE IF event = CV_EVENT_MOUSEMOVE
       THEN (IF ~selected_ THEN Pt(x, y) ELSE point_)
  ELSE Pt(x, y)

NotArmed == <<>>

\* the members before a call, as the claims refer to them
Before(op, event, x, y) ==
  [op |-> op, event |-> event, x |-> x, y |-> y,
   point |-> point_, selected |-> selected_, show |-> show_,
   armed |-> armed]

\* the first click of a double click on an unselected area: a LBUTTONDOWN
\* of a selected selector at (x, y) outside the square around point_
Armed(event, x, y) ==
  IF event = CV_EVENT_MOUSEMOVE THEN armed
  ELSE IF /\ event = CV_EVENT_LBUTTONDOWN
          /\ selected_
          /\ ~(WithinExact(x, point_.x, n_) /\ WithinExact(y, point_.y, n_))
       THEN <<x, y>>
  ELSE NotArmed

\* the mouse callback, dispatched by the window system inside cv::waitKey
OnMouse(event, x, y) ==
  /\ pc = "waitkey"
  /\ callback
  /\ show_' = OnMouseShow(event)
  /\ selected_' = OnMouseSelected(event, x, y)
  /\ point_' = OnMousePoint(event, x, y)
  /\ touched' = (touched \/ event \in {CV_EVENT_MOUSEMOVE, CV_EVENT_LBUTTONDOWN})
  /\ armed' = Armed(event, x, y)
  /\ last' = Before("OnMouse", event, x, y)
  /\ UNCHANGED <<n_, pc, depth_frame, src_frame, im, reads, rect, callback>>

OnDepthMouseCallback ==
  \E event \in Events, x \in Coords, y \in Coords : OnMouse(event, x, y)

\* ---------------------------------------------------------------------------
\* DepthRegion::ShowElems
\* ---------------------------------------------------------------------------
Elem2StringAbove(elem) ==
  IF elem > InvalidDepth THEN "invalid" ELSE NatToString(elem)

\* the formatting rule main passes as elem2string
Elem2String(elem) ==
  IF elem >= InvalidDepth THEN "invalid" ELSE NatToString(elem)

\* the caption main passes as getinfo ("+/-" stands for the plus-minus sign)
DepthInfo(point, n) ==
  "depth pos: [" \o IntToString(point.y) \o ", " \o IntToString(point.x)
    \o "]" \o "+/-" \o NatToString(n) \o ", unit: mm"

GridNEven == ToInt(U32(2 * n_))

\* int n = 2 * n_ + 1
GridN == ToInt(AddU32(U32(2 * n_), U32(1)))

\* the values i and j take in for (int i = -n_; i <= n; ++i)
ShowRange == ToInt(SubU32(U32(0), U32(n_)))..GridN

InColsOffByOne(depth, x) == ~(x < 0 \/ x > depth.cols)

\* the column test of ShowElems
InCols(depth, x) == ~(x < 0 \/ x >= depth.cols)

\* the row test of ShowElems
InRows(depth, y) == ~(y < 0 \/ y >= depth.rows)

\* the offsets (i, j) whose loop body runs to the end
ShowOffsets(depth) ==
  {o \in ShowRange \X ShowRange :
     /\ InCols(depth, point_.x + o[1])
     /\ InRows(depth, point_.y + o[2])}

\* depth.at<T>(y, x): a read outside the buffer yields an arbitrary value
At(depth, y, x) ==
  IF <<x, y>> \in DOMAIN depth.data THEN depth.data[<<x, y>>] ELSE 0

\* one cell of the grid: its text, its color and the slot it is put in
ShowCell(depth, space, i, j) ==
  LET x == point_.x + i
      y == point_.y + j
      si == ToInt(AddU32(U32(i), U32(n_)))
      sj == ToInt(AddU32(U32(j), U32(n_)))
  IN  [i |-> i, j |-> j, x |-> x, y |-> y,
       str |-> Elem2String(At(depth, y, x)),
       color |-> IF i = 0 /\ j = 0 THEN <<0, 0, 255>> ELSE <<0, 0, 0>>,
       slot |-> <<si, sj>>,
       left |-> si * space, top |-> sj * space]

\* the image ShowElems shows, NoImage when it returns early
ShowElemsImage(depth, elem_space) ==
  IF ~show_ THEN NoImage
  ELSE [rows |-> elem_space * GridN, cols |-> elem_space * GridN,
        cells |-> {ShowCell(depth, elem_space, o[1], o[2]) :
                     o \in ShowOffsets(depth)},
        info |-> DepthInfo(point_, n_)]

\* the coordinates ShowElems reads from the depth buffer
ShowElemsReads(depth) ==
  IF ~show_ THEN {}
  ELSE {<<point_.x + o[1], point_.y + o[2]>> : o \in ShowOffsets(depth)}

\* ---------------------------------------------------------------------------
\* DepthRegion::DrawRect
\* ---------------------------------------------------------------------------
RectNNoFloor == AddU32(U32(n_), U32(1))

RectNTight == U32(IF n_ > 1 THEN n_ ELSE 1)

\* std::uint32_t n = (n_ > 1) ? n_ : 1; n += 1;
RectN == AddU32(U32(IF n_ > 1 THEN n_ ELSE 1), U32(1))

\* the corners passed to cv::rectangle
RectPt1 == Pt(ToInt(SubU32(U32(point_.x), RectN)),
              ToInt(SubU32(U32(point_.y), RectN)))
RectPt2 == Pt(ToInt(AddU32(U32(point_.x), RectN)),
              ToInt(AddU32(U32(point_.y), RectN)))

\* selected ? cv::Scalar(0, 255, 0) : cv::Scalar(0, 0, 255)
RectColorOf(selected) ==
  IF selected THEN <<0, 255, 0, 0>> ELSE <<0, 0, 255, 0>>

\* the color passed to cv::rectangle
RectColor == RectColorOf(selected_)

\* the pixels of the outline of the rectangle pt1..pt2, thickness 1
OnOutline(p, pt1, pt2) ==
  /\ pt1.x <= p[1] /\ p[1] <= pt2.x
  /\ pt1.y <= p[2] /\ p[2] <= pt2.y
  /\ (p[1] = pt1.x \/ p[1] = pt2.x \/ p[2] = pt1.y \/ p[2] = pt2.y)

\* cv::rectangle on a single-channel image: the outline, clipped to the
\* image, takes channel 0 of the color
Rectangle(image, pt1, pt2, color) ==
  [image EXCEPT !.data =
     [p \in DOMAIN image.data |->
        IF OnOutline(p, pt1, pt2) THEN color[1] ELSE image.data[p]]]

DrawRectAlways(image) == Rectangle(image, RectPt1, RectPt2, RectColor)

\* the image after DrawRect(image)
DrawRect(image) ==
  IF ~show_ THEN image
  ELSE Rectangle(image, RectPt1, RectPt2, RectColor)

NoRect == <<>>

\* the call of cv::rectangle DrawRect makes, NoRect when it returns early
DrawRectCall ==
  IF ~show_ THEN NoRect
  ELSE [pt1 |-> RectPt1, pt2 |-> RectPt2, color |-> RectColor]

DrawRectNInPlace == IF ~show_ THEN n_ ELSE ToInt(RectN)

\* n_ after DrawRect: the padded half-width is the local n, a copy of n_
DrawRectN == n_

\* ---------------------------------------------------------------------------
\* main: the frame loop
\* ---------------------------------------------------------------------------
Init ==
  /\ n_ \in 0..MaxRadius
  /\ show_ = FALSE
  /\ selected_ = FALSE
  /\ point_ = Pt(0, 0)
  /\ pc = "get"
  /\ depth_frame = EmptyFrame
  /\ src_frame = EmptyFrame
  /\ im = NoImage
  /\ reads = {}
  /\ rect = NoRect
  /\ callback = FALSE
  /\ touched = FALSE
  /\ armed = NotArmed
  /\ last = [op |-> "construct", event |-> 0, x |-> 0, y |-> 0,
             point |-> Pt(0, 0), selected |-> FALSE, show |-> FALSE,
             armed |-> NotArmed]

\* api->GetStreamData(Stream::DEPTH) and the test for an empty frame
GetStreamData ==
  /\ pc = "get"
  /\ \E f \in Frames :
       /\ src_frame' = f
       /\ depth_frame' = f
       /\ pc' = IF f.cols = 0 THEN "waitkey" ELSE "draw"
  /\ last' = Before("GetStreamData", 0, 0, 0)
  /\ UNCHANGED <<selector, im, reads, rect, callback, touched, armed>>

\* cv::setMouseCallback and depth_region.DrawRect(depth_frame)
MainDrawRect ==
  /\ pc = "draw"
  /\ callback' = TRUE
  /\ depth_frame' = DrawRect(depth_frame)
  /\ rect' = DrawRectCall
  /\ n_' = DrawRectN
  /\ pc' = "show"
  /\ last' = Before("DrawRect", 0, 0, 0)
  /\ UNCHANGED <<show_, selected_, point_, src_frame, im, reads, touched,
                 armed>>

\* depth_region.ShowElems<ushort>(depth_frame, ..., 80, depth_info)
MainShowElems ==
  /\ pc = "show"
  /\ im' = ShowElemsImage(depth_frame, MainElemSpace)
  /\ reads' = ShowElemsReads(depth_frame)
  /\ pc' = "shown"
  /\ last' = Before("ShowElems", 0, 0, 0)
  /\ UNCHANGED <<selector, depth_frame, src_frame, rect, callback, touched,
                 armed>>

\* the end of the if block: the frame and the grid go out of scope
EndFrame ==
  /\ pc = "shown"
  /\ depth_frame' = EmptyFrame
  /\ src_frame' = EmptyFrame
  /\ im' = NoImage
  /\ reads' = {}
  /\ rect' = NoRect
  /\ pc' = "waitkey"
  /\ last' = Before("EndFrame", 0, 0, 0)
  /\ UNCHANGED <<selector, callback, touched, armed>>

\* cv::waitKey(1) returns: ESC or Q leaves the loop
WaitKey ==
  /\ pc = "waitkey"
  /\ \E key \in Keys :
       pc' = IF key = KeyEsc \/ key = KeyLowerQ \/ key = KeyUpperQ
             THEN "done" ELSE "get"
  /\ last' = Before("WaitKey", 0, 0, 0)
  /\ UNCHANGED <<selector, depth_frame, src_frame, im, reads, rect, callback,
                 touched, armed>>

Next ==
  \/ OnDepthMouseCallback
  \/ GetStreamData
  \/ MainDrawRect
  \/ MainShowElems
  \/ EndFrame
  \/ WaitKey

Spec == Init /\ [][Next]_vars

\* ---------------------------------------------------------------------------
\* The formatting rule over every 16-bit sample: ShowElems on a frame of one
\* pixel under the pointer, for each value of the pixel.
\* ---------------------------------------------------------------------------
MaxElem == 65535

ElemFrame(v) == [cols |-> 1, rows |-> 1, data |-> [p \in {<<0, 0>>} |-> v]]

FmtInit ==
  /\ n_ = 0
  /\ show_ = TRUE
  /\ selected_ = FALSE
  /\ point_ = Pt(0, 0)
  /\ pc = "show"
  /\ \E v \in 0..MaxElem :
       /\ depth_frame = ElemFrame(v)
       /\ src_frame = ElemFrame(v)
  /\ im = NoImage
  /\ reads = {}
  /\ rect = DrawRectCall
  /\ callback = TRUE
  /\ touched = TRUE
  /\ armed = NotArmed
  /\ last = [op |-> "DrawRect", event |-> 0, x |-> 0, y |-> 0,
             point |-> Pt(0, 0), selected |-> FALSE, show |-> TRUE,
             armed |-> NotArmed]

FmtNext == MainShowElems \/ EndFrame

FmtSpec == FmtInit /\ [][FmtNext]_vars

\* ---------------------------------------------------------------------------
\* The region test over the whole range of int: clicks on a selector whose
\* radius and coordinates reach the ends of the 32-bit range.
\* ---------------------------------------------------------------------------
IntMax == 2147483647
IntMin == (0 - IntMax) - 1

RegionCoords == {IntMin, 0 - 65537, -1, 0, 2, 65536, IntMax}
RegionRadii == {0, 1, 3, 65536, IntMax}

RegionInit ==
  /\ n_ \in RegionRadii
  /\ show_ = FALSE
  /\ selected_ = FALSE
  /\ point_ = Pt(0, 0)
  /\ pc = "waitkey"
  /\ depth_frame = EmptyFrame
  /\ src_frame = EmptyFrame
  /\ im = NoImage
  /\ reads = {}
  /\ rect = NoRect
  /\ callback = TRUE
  /\ touched = FALSE
  /\ armed = NotArmed
  /\ last = [op |-> "EndFrame", event |-> 0, x |-> 0, y |-> 0,
             point |-> Pt(0, 0), selected |-> FALSE, show |-> FALSE,
             armed |-> NotArmed]

RegionClick ==
  \E x \in RegionCoords, y \in RegionCoords :
    OnMouse(CV_EVENT_LBUTTONDOWN, x, y)

RegionNext == RegionClick

RegionSpec == RegionInit /\ [][RegionNext]_vars

\* ---------------------------------------------------------------------------
\* Properties
\* ---------------------------------------------------------------------------
Abs(v) == IF v < 0 THEN 0 - v ELSE v

\* (x, y) lies in the inclusive square of half-width r centred at p
InsideSquare(x, y, p, r) == Abs(x - p.x) <= r /\ Abs(y - p.y) <= r

LastIsMove == last.op = "OnMouse" /\ last.event = CV_EVENT_MOUSEMOVE
LastIsDown == last.op = "OnMouse" /\ last.event = CV_EVENT_LBUTTONDOWN
LastIsOther ==
  /\ last.op = "OnMouse"
  /\ last.event \notin {CV_EVENT_MOUSEMOVE, CV_EVENT_LBUTTONDOWN}
LastInside == InsideSquare(last.x, last.y, last.point, n_)

\* C1 (as stated): a LBUTTONDOWN received while selected, at (x, y) inside the
\* inclusive square around point_, leaves point_ as it was before the event.
C1_DownInsideKeepsPoint ==
  (LastIsDown /\ last.selected /\ LastInside) => point_ = last.point

\* C1 (amended): a LBUTTONDOWN received while selected, at (x, y) inside the
\* inclusive square around point_, sets point_ to (x, y).
C1_DownInsideMovesPoint ==
  (LastIsDown /\ last.selected /\ LastInside) => point_ = Pt(last.x, last.y)

C1_Witness ==
  /\ LastIsDown /\ last.selected /\ LastInside
  /\ ~selected_
  /\ point_ # last.point

\* C2: a LBUTTONDOWN received while selected clears selected_ if and only if
\* (x, y) lies in the inclusive square of half-width n_ around point_.
C2_UnpinIffInside ==
  (LastIsDown /\ last.selected) => (selected_ = FALSE <=> LastInside)

C2_Witness ==
  /\ LastIsDown /\ last.selected
  /\ n_ >= 1
  /\ Abs(last.x - last.point.x) = n_
  /\ Abs(last.y - last.point.y) <= n_
  /\ ~selected_

\* C3: a LBUTTONDOWN received while not selected, or while selected with
\* (x, y) outside the inclusive square, ends with selected_ and point_ = (x, y).
C3_DownPins ==
  (LastIsDown /\ (~last.selected \/ ~LastInside))
    => (selected_ /\ point_ = Pt(last.x, last.y))

C3_Witness ==
  /\ LastIsDown /\ last.selected /\ ~LastInside
  /\ selected_
  /\ point_ = Pt(last.x, last.y)

\* C4: after a MOUSEMOVE handled while not selected, the selector is not
\* selected and point_ is the coordinates of that event.
C4_MoveFollows ==
  (LastIsMove /\ ~last.selected)
    => (~selected_ /\ point_ = Pt(last.x, last.y))

C4_Witness ==
  /\ LastIsMove /\ ~last.selected
  /\ last.x # last.y
  /\ point_ # last.point

\* C5: a MOUSEMOVE received while selected changes neither point_ nor
\* selected_.
C5_MovePinnedIgnored ==
  (LastIsMove /\ last.selected)
    => (point_ = last.point /\ selected_ = last.selected)

C5_Witness ==
  /\ LastIsMove /\ last.selected
  /\ Pt(last.x, last.y) # point_

\* C6: show_ is false initially, is true after every MOUSEMOVE or LBUTTONDOWN
\* event, is set by nothing else, and once true stays true over every step.
C6_VisibleLatch ==
  /\ show_ = FALSE
  /\ [][/\ show_ => show_'
        /\ (last'.op = "OnMouse" /\ Qualifies(last'.event)) => show_'
        /\ (~show_ /\ show_') => (last'.op = "OnMouse" /\ Qualifies(last'.event))
       ]_vars

C6_Witness ==
  /\ show_ /\ last.show
  /\ LastIsOther

\* C7: an event that is neither MOUSEMOVE nor LBUTTONDOWN changes none of
\* point_, selected_, show_ and n_.
C7_OtherIgnored ==
  [][(last'.op = "OnMouse"
       /\ last'.event \notin {CV_EVENT_MOUSEMOVE, CV_EVENT_LBUTTONDOWN})
     => selector' = selector]_vars

C7_Witness ==
  /\ LastIsOther
  /\ ~show_
  /\ Pt(last.x, last.y) # point_

\* C8: every cell ShowElems draws has an offset (i, j) in [-n_, +n_]^2, so
\* that its slot (i + n_, j + n_) is one of the (2 n_ + 1)^2 slots of the
\* canvas.
C8_CellsWithinRadius ==
  \A c \in im.cells :
    /\ 0 - n_ <= c.i /\ c.i <= n_
    /\ 0 - n_ <= c.j /\ c.j <= n_
    /\ c.slot[1] \in 0..(2 * n_) /\ c.slot[2] \in 0..(2 * n_)

InBuffer(depth, x, y) ==
  0 <= x /\ x < depth.cols /\ 0 <= y /\ y < depth.rows

\* C9: ShowElems reads the depth buffer only inside [0, cols) x [0, rows),
\* and draws no cell whose sample coordinate is outside.
C9_ReadsInBounds ==
  pc = "shown" =>
    /\ \A r \in reads : InBuffer(depth_frame, r[1], r[2])
    /\ \A c \in im.cells : InBuffer(depth_frame, c.x, c.y)

C9_Witness ==
  /\ pc = "shown" /\ show_
  /\ point_.x < 0
  /\ reads # {}
  /\ Cardinality(reads) < Cardinality(ShowRange \X ShowRange)

\* C10: until a MOUSEMOVE or LBUTTONDOWN event has been handled, ShowElems
\* shows no image and DrawRect leaves every pixel of the frame as it was.
C10_HiddenUntilTouched ==
  ~touched =>
    /\ pc = "shown" => (im = NoImage /\ reads = {})
    /\ pc \in {"show", "shown"} => depth_frame = src_frame

C10_Witness ==
  /\ ~touched
  /\ pc = "shown"
  /\ src_frame # EmptyFrame
  /\ LET p1 == RectPt1
         p2 == RectPt2
     IN  \E p \in DOMAIN src_frame.data : OnOutline(p, p1, p2)

\* C11: from a selected selector, two LBUTTONDOWN events at the same (x, y)
\* outside the selected square, with only MOUSEMOVE events in between, leave
\* the selector not selected.
C11_DoubleClickUnpins ==
  (LastIsDown /\ last.armed = <<last.x, last.y>>) => ~selected_

C11_Witness ==
  /\ LastIsDown /\ last.armed = <<last.x, last.y>>
  /\ last.selected
  /\ n_ = 0
  /\ ~selected_

\* C12: every call of DrawRect or ShowElems leaves point_, n_, show_ and
\* selected_ unchanged.
C12_RenderReadsOnly ==
  [][last'.op \in {"DrawRect", "ShowElems"} => selector' = selector]_vars

C12_Witness ==
  /\ last.op = "ShowElems"
  /\ show_ /\ selected_
  /\ rect # NoRect
  /\ im # NoImage

\* the half-width of the rectangle, as the claim gives it
HalfWidth(r) == (IF r >= 1 THEN r ELSE 1) + 1

\* C13: when show_, DrawRect draws the rectangle with corners point_ - h and
\* point_ + h, h = max(n_, 1) + 1; h is 2 for n_ = 0 and n_ = 1, 4 for n_ = 3.
C13_RectHalfWidth ==
  (pc = "show" /\ show_) =>
    /\ rect # NoRect
    /\ rect.pt1 = Pt(point_.x - HalfWidth(n_), point_.y - HalfWidth(n_))
    /\ rect.pt2 = Pt(point_.x + HalfWidth(n_), point_.y + HalfWidth(n_))
    /\ n_ = 0 => rect.pt2.x - point_.x = 2
    /\ n_ = 1 => rect.pt2.x - point_.x = 2
    /\ n_ = 3 => rect.pt2.x - point_.x = 4

C13_Witness ==
  /\ pc = "show" /\ show_
  /\ n_ = 0
  /\ point_.x < 0
  /\ rect # NoRect

\* C14: when show_, the canvas of ShowElems is square with side
\* (2 n_ + 1) * elem_space; the side is 560 for n_ = 3 and elem_space = 80.
C14_CanvasSide ==
  (pc = "shown" /\ show_) =>
    /\ im.rows = (2 * n_ + 1) * MainElemSpace
    /\ im.cols = im.rows
    /\ (n_ = 3 /\ MainElemSpace = 80) => im.rows = 560

C14_Witness ==
  /\ pc = "shown" /\ show_
  /\ n_ = MaxRadius
  /\ im.rows > MainElemSpace

\* C16: when show_, DrawRect passes one color if selected_ and another if
\* not, and the value it writes onto the outline pixels of the single-channel
\* frame differs from the value it writes in the other state.
C16_OutlineValueDiffers ==
  (pc = "show" /\ show_) =>
    /\ rect.color = RectColorOf(selected_)
    /\ RectColorOf(TRUE) # RectColorOf(FALSE)
    /\ \A p \in DOMAIN depth_frame.data :
         OnOutline(p, rect.pt1, rect.pt2)
           => depth_frame.data[p] # RectColorOf(~selected_)[1]

\* C18: selected_ implies show_ in every reachable state.
C18_PinnedIsVisible == selected_ => show_

C18_Witness ==
  /\ LastIsDown
  /\ ~last.show
  /\ selected_ /\ show_

\* C19: with DrawRect run before ShowElems on the same frame, no sample that
\* ShowElems reads at an offset in [-n_, +n_]^2 from point_ has been
\* overwritten by the outline of the rectangle.
C19_ReadsInsideOutline ==
  (pc = "shown" /\ show_) =>
    \A c \in im.cells :
      (Abs(c.i) <= n_ /\ Abs(c.j) <= n_)
        => /\ <<c.x, c.y>> \in reads
           /\ depth_frame.data[<<c.x, c.y>>] = src_frame.data[<<c.x, c.y>>]

C19_Witness ==
  /\ pc = "shown" /\ show_
  /\ depth_frame # src_frame
  /\ n_ >= 1
  /\ \E c \in im.cells : c.i = n_ /\ c.j = 0 - n_

\* the decimal text of a sample below 10000, digit by digit
Decimal4(v) ==
  LET d == <<"0", "1", "2", "3", "4", "5", "6", "7", "8", "9">>
  IN  (IF v >= 1000 THEN d[(v \div 1000) + 1] ELSE "")
        \o (IF v >= 100 THEN d[((v \div 100) % 10) + 1] ELSE "")
        \o (IF v >= 10 THEN d[((v \div 10) % 10) + 1] ELSE "")
        \o d[(v % 10) + 1]

\* C15: every 16-bit sample v is shown as "invalid" when v >= 10000 and as
\* its decimal text otherwise; 10000 gives "invalid" and 9999 gives "9999".
C15_FormatRule ==
  pc = "shown" =>
    /\ (show_ /\ InBuffer(depth_frame, point_.x, point_.y))
         => \E c \in im.cells : c.i = 0 /\ c.j = 0
    /\ \A c \in im.cells :
         LET v == depth_frame.data[<<c.x, c.y>>]
         IN  /\ v >= 10000 => c.str = "invalid"
             /\ v < 10000 => c.str = Decimal4(v)
             /\ v = 10000 => c.str = "invalid"
             /\ v = 9999 => c.str = "9999"

C15_Witness ==
  /\ pc = "shown"
  /\ depth_frame.cols = 1
  /\ depth_frame.data[<<0, 0>>] = 10000
  /\ \E c \in im.cells : c.x = 0 /\ c.y = 0 /\ c.str = "invalid"

\* point -/+ radius fit in a signed 32-bit int
FitsInt(p, r) ==
  /\ WLe(Wide(IntMin), WSub(Wide(p), Wide(r)))
  /\ WLe(WAdd(Wide(p), Wide(r)), Wide(IntMax))

\* C17: for a point and a radius with point -/+ radius inside the range of
\* int, the region test of a LBUTTONDOWN on a selected selector, as OnMouse
\* computes it, answers as |x - point.x| <= radius and |y - point.y| <= radius.
C17_RegionTestExact ==
  (/\ LastIsDown /\ last.selected
   /\ FitsInt(last.point.x, n_) /\ FitsInt(last.point.y, n_))
    => (selected_ = FALSE <=>
          /\ WithinExact(last.x, last.point.x, n_)
          /\ WithinExact(last.y, last.point.y, n_))

C17_Witness ==
  /\ LastIsDown /\ last.selected
  /\ FitsInt(last.point.x, n_) /\ FitsInt(last.point.y, n_)
  /\ last.point.x < 0
  /\ n_ >= 3
  /\ last.x > last.point.x
  /\ ~selected_

====
